---- MODULE Spec2Model ----
(***************************************************************************)
(* A model of barry.models.PowerDing2018 (bao_power_Ding2018.py) and       *)
(* barry.models.CorrSeo2016 (bao_correlation_Seo2016.py).                  *)
(*                                                                         *)
(* Control flow, data flow, the memoization caches and the parameter       *)
(* bookkeeping are modelled exactly.  Floating point arrays are modelled   *)
(* as terms: a record that names the numerical expression and holds the    *)
(* inputs it is computed from (grids are sequences of wavenumbers, so the  *)
(* length of every axis is kept).  Two arrays are equal in the program if  *)
(* their terms are equal.                                                  *)
(*                                                                         *)
(* Parameter values om, beta are integers in units of 10^-6; b is a whole  *)
(* number, so b * beta stays in units of 10^-6.                            *)
(***************************************************************************)
EXTENDS Integers, Sequences, FiniteSets, TLC

VARIABLES
    models,     \* models[i]: the configuration of PowerDing2018 instance i
    alive,      \* the instances whose construction returned
    camb,       \* camb[i]: self.camb of instance i (the Cosmology Provider object)
    data_dict,  \* data_dict[i][name]: the ks_input grid of dataset name
    cache,      \* cache[fn]: the lru_cache of memoized method fn (class level)
    last,       \* the last operation and what it returned or raised
    corr        \* the CorrSeo2016 instance under construction / constructed

vars == <<models, alive, camb, data_dict, cache, last, corr>>

----------------------------------------------------------------------------
(* Bounds of the model *)

\* grid versions an instance can go through (set_cosmology / set_data)
MaxVersion == 2

\* the largest n_poly and n_data a model is constructed with
MaxNPoly == 5

MaxNData == 2

\* lru_cache(maxsize=4)
maxsize == 4

Inst == {"A", "B"}

None == "None"

DataNames == {"d1"}

----------------------------------------------------------------------------
(* Grids *)

\* self.mu = np.linspace(0, 1, nmu): the mu axis in units of 1/2
MuGrid == <<0, 1, 2>>

\* the wavenumber grid of the Cosmology Provider, version v
CambKs(v) == [j \in 1..(v + 1) |-> j]

\* the camb generator object: its grid and its smoothing kernel
Camb(v) == [ver |-> v, ks |-> CambKs(v), smoothing_kernel |-> <<"smoothing_kernel", v>>]

\* data_dict[name]["ks_input"], version v
KsInput(v) == [j \in 1..(v + 1) |-> 10 * j]

\* np.round(x, decimals=5) of a value in units of 10^-6 (round half to even)
Round5(x) ==
    LET q == x \div 10
        r == x % 10
    IN  IF r < 5 THEN 10 * q
        ELSE IF r > 5 THEN 10 * (q + 1)
        ELSE IF q % 2 = 0 THEN 10 * q ELSE 10 * (q + 1)

----------------------------------------------------------------------------
(* precompute and the memoized damping functions *)

\* camb.get_data(om, h0): r_s, ks, pk_lin of the provider for om
get_data(c, om) == [r_s |-> <<"r_s", c.ver, om>>, ks |-> c.ks, pk_lin |-> <<"pk_lin", c.ver, om>>]

precompute(c, om) ==
    LET d == get_data(c, om)
        s == c.smoothing_kernel
    IN  [sigma_nl    |-> [f |-> "simps(pk_lin*(1-j0))/6pi^2", pk_lin |-> d.pk_lin, r_s |-> d.r_s, ks |-> d.ks, s |-> <<"none", 0>>],
         sigma_dd_nl |-> [f |-> "simps(pk_lin*(1-s)^2*(1-j0))/6pi^2", pk_lin |-> d.pk_lin, r_s |-> d.r_s, ks |-> d.ks, s |-> s],
         sigma_sd_nl |-> [f |-> "simps(pk_lin*(0.5(s^2+(1-s)^2)+j0*s*(1-s)))/6pi^2", pk_lin |-> d.pk_lin, r_s |-> d.r_s, ks |-> d.ks, s |-> s],
         sigma_ss_nl |-> [f |-> "simps(pk_lin*s^2*(1-j0))/6pi^2", pk_lin |-> d.pk_lin, r_s |-> d.r_s, ks |-> d.ks, s |-> s]]

\* self.get_pregen(name, om): the precomputed value for om on the instance's camb
get_pregen(self, name, om) == precompute(camb[self], om)[name]

\* the array exp(-outer(...) * sigma) as a term; rows and cols are its two axes
Exp(form, growth, rows, cols, sigma) ==
    [f |-> form, growth |-> growth, rows |-> rows, cols |-> cols, sigma |-> sigma]

\* the ks a data_name selects (lines 97-100 and the same in every aniso function)
aniso_ks(self, data_name) ==
    IF data_name = None THEN camb[self].ks ELSE data_dict[self][data_name].ks_input

get_damping(self, growth, om) ==
    Exp("exp(-outer(1+(2+g)g*mu^2, ks^2)*sigma)", growth, MuGrid, camb[self].ks, get_pregen(self, "sigma_nl", om))

get_damping_dd(self, growth, om) ==
    Exp("exp(-outer(1+(2+g)g*mu^2, ks^2)*sigma)", growth, MuGrid, camb[self].ks, get_pregen(self, "sigma_dd_nl", om))

get_damping_sd(self, growth, om) ==
    Exp("exp(-outer(1+g*mu^2, ks^2)*sigma)", growth, MuGrid, camb[self].ks, get_pregen(self, "sigma_sd_nl", om))

get_damping_ss(self, om) ==
    Exp("exp(-tile(ks^2,(nmu,1))*sigma)", 0, MuGrid, camb[self].ks, get_pregen(self, "sigma_ss_nl", om))

get_damping_aniso_par(self, growth, om, data_name) ==
    Exp("exp(-outer((1+(2+g)g)*ks^2, mu^2)*sigma)", growth, aniso_ks(self, data_name), MuGrid, get_pregen(self, "sigma_nl", om))

get_damping_aniso_perp(self, om, data_name) ==
    Exp("exp(-outer(ks^2, 1-mu^2)*sigma)", 0, aniso_ks(self, data_name), MuGrid, get_pregen(self, "sigma_nl", om))

get_damping_aniso_dd_par(self, growth, om, data_name) ==
    Exp("exp(-outer((1+(2+g)g)*ks^2, mu^2)*sigma)", growth, aniso_ks(self, data_name), MuGrid, get_pregen(self, "sigma_dd_nl", om))

get_damping_aniso_dd_perp(self, om, data_name) ==
    Exp("exp(-outer(ks^2, 1-mu^2)*sigma)", 0, aniso_ks(self, data_name), MuGrid, get_pregen(self, "sigma_dd_nl", om))

get_damping_aniso_sd_par(self, growth, om, data_name) ==
    Exp("exp(-outer((1+g)*ks^2, mu^2)*sigma)", growth, aniso_ks(self, data_name), MuGrid, get_pregen(self, "sigma_sd_nl", om))

get_damping_aniso_sd_perp(self, om, data_name) ==
    Exp("exp(-outer(ks^2, 1-mu^2)*sigma)", 0, aniso_ks(self, data_name), MuGrid, get_pregen(self, "sigma_sd_nl", om))

get_damping_aniso_ss_par(self, om, data_name) ==
    Exp("exp(-outer(ks^2, mu^2)*sigma)", 0, aniso_ks(self, data_name), MuGrid, get_pregen(self, "sigma_ss_nl", om))

get_damping_aniso_ss_perp(self, om, data_name) ==
    Exp("exp(-outer(ks^2, 1-mu^2)*sigma)", 0, aniso_ks(self, data_name), MuGrid, get_pregen(self, "sigma_ss_nl", om))

\* the memoized methods
IsoFns == {"get_damping", "get_damping_dd", "get_damping_sd", "get_damping_ss"}

AnisoFns == {"get_damping_aniso_par", "get_damping_aniso_perp",
             "get_damping_aniso_dd_par", "get_damping_aniso_dd_perp",
             "get_damping_aniso_sd_par", "get_damping_aniso_sd_perp",
             "get_damping_aniso_ss_par", "get_damping_aniso_ss_perp"}

Fns == IsoFns \cup AnisoFns

\* the methods whose signature has a growth argument
GrowthFns == {"get_damping", "get_damping_dd", "get_damping_sd",
              "get_damping_aniso_par", "get_damping_aniso_dd_par", "get_damping_aniso_sd_par"}

\* the body of method fn run on the instance's current grids
Body(fn, self, growth, om, data_name) ==
    CASE fn = "get_damping"               -> get_damping(self, growth, om)
      [] fn = "get_damping_dd"            -> get_damping_dd(self, growth, om)
      [] fn = "get_damping_sd"            -> get_damping_sd(self, growth, om)
      [] fn = "get_damping_ss"            -> get_damping_ss(self, om)
      [] fn = "get_damping_aniso_par"     -> get_damping_aniso_par(self, growth, om, data_name)
      [] fn = "get_damping_aniso_perp"    -> get_damping_aniso_perp(self, om, data_name)
      [] fn = "get_damping_aniso_dd_par"  -> get_damping_aniso_dd_par(self, growth, om, data_name)
      [] fn = "get_damping_aniso_dd_perp" -> get_damping_aniso_dd_perp(self, om, data_name)
      [] fn = "get_damping_aniso_sd_par"  -> get_damping_aniso_sd_par(self, growth, om, data_name)
      [] fn = "get_damping_aniso_sd_perp" -> get_damping_aniso_sd_perp(self, om, data_name)
      [] fn = "get_damping_aniso_ss_par"  -> get_damping_aniso_ss_par(self, om, data_name)
      [] fn = "get_damping_aniso_ss_perp" -> get_damping_aniso_ss_perp(self, om, data_name)

----------------------------------------------------------------------------
(* functools.lru_cache(maxsize=4) around a method *)

\* the key lru_cache builds from the call: the positional arguments (self first)
\* and, for the aniso methods, the keyword data_name
make_key(fn, self, growth, om, data_name) ==
    [self |-> self,
     growth |-> IF fn \in GrowthFns THEN growth ELSE 0,
     om |-> om,
     data_name |-> IF fn \in AnisoFns THEN data_name ELSE None]

\* index of key in the cache sequence c, 0 when absent
Find(c, key) ==
    IF \E n \in 1..Len(c) : c[n].key = key
    THEN CHOOSE n \in 1..Len(c) : c[n].key = key
    ELSE 0

Remove(c, n) == [m \in 1..(Len(c) - 1) |-> IF m < n THEN c[m] ELSE c[m + 1]]

\* the cache sequence (least recently used first) after a call with key
lru_after(c, key, fresh) ==
    LET n == Find(c, key)
    IN  IF n > 0 THEN Append(Remove(c, n), c[n])
        ELSE LET e == [key |-> key, val |-> fresh]
             IN  IF Len(c) >= maxsize THEN Append(Tail(c), e) ELSE Append(c, e)

\* the value a call with key returns: the cached one on a hit
lru_value(c, key, fresh) ==
    LET n == Find(c, key)
    IN  IF n > 0 THEN c[n].val ELSE fresh

----------------------------------------------------------------------------
(* PowerDing2018.__init__ and declare_parameters *)

\* the reconstruction tag the base class keeps for the recon argument
recon_type_of(recon) == recon

\* self.marg is true exactly for the marginalisation modes "full" and "partial"
marg_of(marg) == marg \in {"full", "partial"}

\* the poles the base class keeps: an isotropic model fits the monopole only
poly_poles_of(isotropic, poly_poles) == IF isotropic THEN <<0>> ELSE poly_poles

\* n_data_poly: datasets with polynomial parameters of their own
n_data_poly_of(n_data, data_share_poly) == IF data_share_poly THEN 1 ELSE n_data

\* __init__ without the check of the reconstruction type
init_status_n_poly_only(a) ==
    IF a.n_poly \notin {0, 3, 5} THEN "NotImplementedError" ELSE "ok"

\* what __init__ raises for the arguments a, "ok" when it returns
init_status(a) ==
    IF a.n_poly \notin {0, 3, 5} THEN "NotImplementedError"
    ELSE IF recon_type_of(a.recon) = "sym" \/ recon_type_of(a.recon) = "ani" THEN "NotImplementedError"
    ELSE "ok"

\* the attributes of the instance __init__ builds from the arguments a
init_model(a) ==
    [isotropic   |-> a.isotropic,
     recon_type  |-> recon_type_of(a.recon),
     recon       |-> recon_type_of(a.recon) # None,
     n_poly      |-> a.n_poly,
     marg        |-> marg_of(a.marg),
     marg_type   |-> a.marg,
     poly_poles  |-> poly_poles_of(a.isotropic, a.poly_poles),
     n_data_poly |-> n_data_poly_of(a.n_data, a.data_share_poly)]

\* the elements of a sequence
Range(s) == {s[n] : n \in DOMAIN s}

\* the polynomial parameters declare_parameters adds: <<pole, order, dataset>>
\* stands for the name a{pole}_{order}_{dataset}
declare_parameters(m) ==
    LET orders == (IF m.n_poly >= 3 THEN {1, 2, 3} ELSE {}) \cup
                  (IF m.n_poly = 5 THEN {4, 5} ELSE {})
    IN  {<<pole, order, i + 1>> :
            pole \in Range(m.poly_poles), order \in orders, i \in 0..(m.n_data_poly - 1)}
----------------------------------------------------------------------------
(* compute_power_spectrum *)

\* 1.0 in units of 10^-6
One == 10^6

\* the base class's smooth spectrum and wiggle ratio for om on the camb grid
compute_basic_power_spectrum(self, om) ==
    [pk_smooth_lin |-> <<"pk_smooth_lin", camb[self].ver, om>>,
     pk_ratio      |-> <<"pk_ratio", camb[self].ver, om>>]

\* the base class's per-dataset handling: "b" is taken from dataset i's bias
deal_with_ndata(p, i) ==
    [x \in (DOMAIN p) \cup {"b"} |-> IF x = "b" THEN p["b_{1}"] ELSE p[x]]

\* add_three_poly (form = 3) and add_five_poly (form = 5) of the base class:
\* the shape term and the polynomial set, whose first entry is the bias entry
\* <<0, 0>> and whose other entries <<pole, order>> are the templates
add_poly(form, m, k_model, k_data, prefac) ==
    LET ps == m.poly_poles
    IN  [shape |-> [form |-> form, k |-> k_model, k_data |-> k_data, prefac |-> prefac],
         poly  |-> [n \in 1..(Len(ps) * form + 1) |->
                        IF n = 1 THEN <<0, 0>>
                        ELSE <<ps[((n - 2) \div form) + 1], ((n - 2) % form) + 1>>]]

\* the parameters a{pole}_{order}_{dataset} the routine of that form reads
poly_params_used(form, m) ==
    {<<pole, order, i + 1>> :
        pole \in Range(m.poly_poles), order \in 1..form, i \in 0..(m.n_data_poly - 1)}

\* the polynomial set returned whole whatever the marginalisation mode
returned_poly_whole(m, poly) == poly

\* the polynomial set returned: without its first entry when marginalising
\* (lines 268-269, 342-343)
returned_poly(m, poly) == IF m.marg THEN Tail(poly) ELSE poly

\* the polynomial routine compute_power_spectrum calls (lines 263-267, 337-341)
poly_form(m) == IF m.n_poly = 3 THEN 3 ELSE 5

\* the memoized functions called whether smooth or not
damping_calls_always(m, smooth) ==
    IF m.isotropic
    THEN IF m.recon THEN <<"get_damping_dd", "get_damping_sd", "get_damping_ss">>
         ELSE <<"get_damping">>
    ELSE IF m.recon
         THEN <<"get_damping_aniso_dd_par", "get_damping_aniso_dd_perp",
                "get_damping_aniso_sd_par", "get_damping_aniso_sd_perp",
                "get_damping_aniso_ss_par", "get_damping_aniso_ss_perp">>
         ELSE <<"get_damping_aniso_par", "get_damping_aniso_perp">>

\* the memoized functions an evaluation calls, in call order: none when smooth
\* (lines 225-226, 289-290)
damping_calls(m, smooth) ==
    IF smooth THEN <<>>
    ELSE IF m.isotropic
    THEN IF m.recon THEN <<"get_damping_dd", "get_damping_sd", "get_damping_ss">>
         ELSE <<"get_damping">>
    ELSE IF m.recon
         THEN <<"get_damping_aniso_dd_par", "get_damping_aniso_dd_perp",
                "get_damping_aniso_sd_par", "get_damping_aniso_sd_perp",
                "get_damping_aniso_ss_par", "get_damping_aniso_ss_perp">>
         ELSE <<"get_damping_aniso_par", "get_damping_aniso_perp">>

\* two arrays broadcast together (every axis here is longer than 1)
same_shape(x, y) == Len(x.rows) = Len(y.rows) /\ Len(x.cols) = Len(y.cols)

NoTerm == <<"none", 0>>

NoKprime == [k |-> <<>>, alpha |-> One, warp |-> NoTerm]

NoPoly == [none |-> TRUE, form |-> 0, prefac |-> <<>>, entries |-> <<>>]

\* the call raised: nothing is returned
raised(status, c, calls, returned, dealt) ==
    [status |-> status, kprime |-> NoKprime, pk |-> <<>>, poly |-> NoPoly,
     cache |-> c, calls |-> calls, returned |-> returned, dealt |-> dealt, form |-> 0]

\* the isotropic branch (lines 215-272); p holds "b"
compute_isotropic(lru, self, k, p, smooth, for_corr, dealt) ==
    LET m == models[self]
        ks == camb[self].ks
        basic == compute_basic_power_spectrum(self, p["om"])
        kprime == [k |-> k, alpha |-> IF for_corr THEN One ELSE p["alpha"], warp |-> NoTerm]
        pk_smooth == [b |-> p["b"], beta |-> 0, sigma_s |-> p["sigma_s"],
                      pk_smooth_lin |-> basic.pk_smooth_lin, at |-> ks, mu |-> MuGrid]
        om == Round5(p["om"])
        growth == Round5(p["b"] * p["beta"])
        calls == damping_calls(m, smooth)
        key(fn) == make_key(fn, self, growth, om, None)
        val(fn) == lru_value(lru[fn], key(fn), Body(fn, self, growth, om, None))
        c == [fn \in Fns |->
                IF fn \in Range(calls)
                THEN lru_after(lru[fn], key(fn), Body(fn, self, growth, om, None))
                ELSE lru[fn]]
        damping == [n \in 1..Len(calls) |-> val(calls[n])]
        like == [rows |-> MuGrid, cols |-> ks]
        propagator == [f |-> IF smooth THEN "zeros" ELSE IF m.recon THEN "recon" ELSE "norecon",
                       damping |-> damping,
                       b |-> p["b"], beta |-> p["beta"], b_delta |-> p["b_delta"],
                       s |-> IF m.recon /\ ~smooth THEN camb[self].smoothing_kernel ELSE NoTerm]
        prefac == IF smooth THEN <<>> ELSE <<propagator, basic.pk_ratio>>
        form == IF for_corr THEN 0 ELSE poly_form(m)
        added == add_poly(form, m, ks, k, prefac)
        poly == IF for_corr THEN NoPoly
                ELSE [none |-> FALSE, form |-> form, prefac |-> prefac,
                      entries |-> returned_poly(m, added.poly)]
        pk0 == [f |-> "splev(kprime, splrep(ks, simps((pk_smooth+shape)*(1+pk_ratio*propagator), mu)))",
                l |-> 0, kprime |-> kprime, pk_smooth |-> pk_smooth, pk_ratio |-> basic.pk_ratio,
                propagator |-> propagator,
                shape |-> IF for_corr THEN <<>> ELSE <<added.shape>>]
    IN  IF \E n \in 1..Len(calls) : ~same_shape(damping[n], like)
        THEN raised("ValueError", c, calls, damping, dealt)
        ELSE [status |-> "ok", kprime |-> kprime, pk |-> <<pk0>>, poly |-> poly,
              cache |-> c, calls |-> calls, returned |-> damping, dealt |-> dealt, form |-> form]
\* the anisotropic branch (lines 274-346); p holds "b"
compute_anisotropic(lru, self, k, p, smooth, for_corr, data_name, dealt) ==
    LET m == models[self]
        ks == camb[self].ks
        basic == compute_basic_power_spectrum(self, p["om"])
        epsilon == Round5(p["epsilon"])
        kprime2d == IF for_corr THEN [k |-> k, alpha |-> One, warp |-> <<"tile", 0>>]
                    ELSE [k |-> k, alpha |-> p["alpha"], warp |-> <<"kprimefac", epsilon>>]
        om == Round5(p["om"])
        growth == Round5(p["b"] * p["beta"])
        sprime == IF m.recon THEN camb[self].smoothing_kernel ELSE NoTerm
        pk_smooth == [b |-> p["b"], beta |-> p["beta"], sigma_s |-> p["sigma_s"],
                      pk_smooth_lin |-> basic.pk_smooth_lin, at |-> ks, muprime |-> epsilon,
                      sprime |-> sprime]
        all == damping_calls(m, smooth)
        key(fn) == make_key(fn, self, growth, om, data_name)
        val(fn) == lru_value(lru[fn], key(fn), Body(fn, self, growth, om, data_name))
        npairs == Len(all) \div 2
        \* damping_xx = par ** power_par * perp ** power_perp broadcasts
        pair_ok(j) == same_shape(val(all[2 * j - 1]), val(all[2 * j]))
        bad == {j \in 1..npairs : ~pair_ok(j)}
        done == IF bad = {} THEN npairs ELSE CHOOSE j \in bad : \A j2 \in bad : j <= j2
        calls == SubSeq(all, 1, 2 * done)
        c == [fn \in Fns |->
                IF fn \in Range(calls)
                THEN lru_after(lru[fn], key(fn), Body(fn, self, growth, om, data_name))
                ELSE lru[fn]]
        damping == [n \in 1..Len(calls) |-> val(calls[n])]
        like == [rows |-> k, cols |-> MuGrid]
        propagator == [f |-> IF m.recon THEN "recon" ELSE "norecon",
                       damping |-> damping,
                       power |-> <<p["alpha"], epsilon>>,
                       b |-> p["b"], b_delta |-> p["b_delta"], sprime |-> sprime]
        pk2d == [kprime |-> kprime2d, pk_smooth |-> pk_smooth,
                 wiggle |-> IF smooth THEN <<>> ELSE <<[pk_ratio |-> basic.pk_ratio, propagator |-> propagator]>>]
        form == IF for_corr THEN 0 ELSE poly_form(m)
        added == add_poly(form, m, k, k, <<>>)
        shaped == IF for_corr \/ m.marg THEN {} ELSE Range(m.poly_poles)
        pk == [n \in 1..6 |->
                 [f |-> IF n \in {1, 3, 5} THEN "integrate_mu" ELSE "zeros",
                  l |-> n - 1,
                  pk2d |-> IF n \in {1, 3, 5} THEN <<pk2d>> ELSE <<>>,
                  shape |-> IF (n - 1) \in shaped THEN <<added.shape>> ELSE <<>>]]
        poly == IF for_corr THEN NoPoly
                ELSE [none |-> FALSE, form |-> form, prefac |-> <<>>,
                      entries |-> returned_poly(m, added.poly)]
        kprime == IF for_corr THEN [k |-> k, alpha |-> One, warp |-> NoTerm] ELSE kprime2d
    IN  IF bad # {} \/ \E n \in 1..Len(calls) : ~same_shape(damping[n], like)
        THEN raised("ValueError", c, calls, damping, dealt)
        ELSE [status |-> "ok", kprime |-> kprime, pk |-> pk, poly |-> poly,
              cache |-> c, calls |-> calls, returned |-> damping, dealt |-> dealt, form |-> form]

\* the per-dataset handling run for every call without "b", for_corr or not
deals_with_ndata_always(p, for_corr) == "b" \notin DOMAIN p

\* lines 211-213: the per-dataset handling is run unless for_corr, when p has no "b"
deals_with_ndata(p, for_corr) == ~for_corr /\ "b" \notin DOMAIN p

\* compute_power_spectrum with the isotropic test inverted
compute_power_spectrum_inverted(lru, self, k, p, smooth, for_corr, data_name) ==
    LET m == models[self]
        dealt == deals_with_ndata(p, for_corr)
        p1 == IF dealt THEN deal_with_ndata(p, 0) ELSE p
    IN  IF "b" \notin DOMAIN p1 THEN raised("KeyError", lru, <<>>, <<>>, dealt)
        ELSE IF ~m.isotropic THEN compute_isotropic(lru, self, k, p1, smooth, for_corr, dealt)
        ELSE compute_anisotropic(lru, self, k, p1, smooth, for_corr, data_name, dealt)

\* compute_power_spectrum(k, p, smooth, for_corr, data_name) on instance self:
\* what it returns or raises, the caches after it, and the calls it made
compute_power_spectrum(lru, self, k, p, smooth, for_corr, data_name) ==
    LET m == models[self]
        dealt == deals_with_ndata(p, for_corr)
        p1 == IF dealt THEN deal_with_ndata(p, 0) ELSE p
    IN  IF "b" \notin DOMAIN p1 THEN raised("KeyError", lru, <<>>, <<>>, dealt)
        ELSE IF m.isotropic THEN compute_isotropic(lru, self, k, p1, smooth, for_corr, dealt)
        ELSE compute_anisotropic(lru, self, k, p1, smooth, for_corr, data_name, dealt)
----------------------------------------------------------------------------
(* CorrSeo2016.__init__ and declare_parameters *)

\* the name a{pole}_{order}; the other parameters are <<name, 0, 0>>
A(pole, order) == <<"a", pole, order>>

\* the poles kept as passed
corr_poly_poles_as_passed(isotropic, poly_poles) == poly_poles

\* lines 28-29: an isotropic model keeps the monopole only
corr_poly_poles(isotropic, poly_poles) == IF isotropic THEN <<0>> ELSE poly_poles

\* lines 30-33: with a marginalisation mode the polynomial parameters are fixed
corr_fix_params(fix_params, marg, poly_poles) ==
    IF marg # None
    THEN fix_params \cup {A(pole, order) : pole \in Range(poly_poles), order \in 1..3}
    ELSE fix_params

\* the parameters the base class declares, with their defaults
corr_base_parameters == [name \in {<<"om", 0, 0>>, <<"alpha", 0, 0>>} |-> IF name[1] = "om" THEN 310000 ELSE One]

\* lines 59-68: the declared parameters and the default add_param gives each
corr_declare_parameters(poly_poles) ==
    LET own == {<<"b", 0, 0>>, <<"beta", 0, 0>>, <<"sigma_s", 0, 0>>}
        poly == {A(pole, order) : pole \in Range(poly_poles), order \in 1..3}
        base == corr_base_parameters
    IN  [name \in (DOMAIN base) \cup own \cup poly |->
            IF name \in poly THEN 0
            ELSE IF name \in DOMAIN base THEN base[name]
            ELSE IF name[1] = "b" THEN One
            ELSE IF name[1] = "beta" THEN 500000
            ELSE 5 * One]

\* set_default(name, v) of the base class
set_default(defaults, names, v) ==
    [name \in DOMAIN defaults |-> IF name \in names THEN v ELSE defaults[name]]

\* the instance CorrSeo2016(...) builds from the arguments a (lines 27-57)
corr_init(a) ==
    LET poly_poles == corr_poly_poles(a.isotropic, a.poly_poles)
        fix_params == corr_fix_params(a.fix_params, a.marg, poly_poles)
        declared == corr_declare_parameters(poly_poles)
        marg == marg_of(a.marg)
    IN  [isotropic  |-> a.isotropic,
         poly_poles |-> poly_poles,
         marg       |-> marg,
         fix_params |-> fix_params,
         defaults   |-> IF marg
                        THEN set_default(declared, {A(pole, order) : pole \in Range(poly_poles), order \in 1..3}, 0)
                        ELSE declared]

----------------------------------------------------------------------------
(* State and operations *)

NoModel == init_model([isotropic |-> TRUE, recon |-> None, n_poly |-> 5, marg |-> None,
                       poly_poles |-> <<0, 2>>, n_data |-> 1, data_share_poly |-> FALSE])

Dataset(v) == [ver |-> v, ks_input |-> KsInput(v)]

EmptyCache == [fn \in Fns |-> <<>>]

Op(op, self, ctor, call, r) == [op |-> op, self |-> self, ctor |-> ctor, call |-> call, r |-> r]

Init ==
    /\ models = [i \in Inst |-> NoModel]
    /\ alive = {}
    /\ camb = [i \in Inst |-> Camb(1)]
    /\ data_dict = [i \in Inst |-> [d \in DataNames |-> Dataset(1)]]
    /\ cache = EmptyCache
    /\ last = Op("init", None, <<>>, <<>>, <<>>)
    /\ corr = <<>>

\* PowerDing2018(**a) bound to the name i
Construct(i, a) ==
    /\ i \notin alive
    /\ LET status == init_status(a)
       IN  /\ last' = Op("construct", i, <<[args |-> a, status |-> status]>>, <<>>, <<>>)
           /\ IF status = "ok"
              THEN /\ alive' = alive \cup {i}
                   /\ models' = [models EXCEPT ![i] = init_model(a)]
              ELSE UNCHANGED <<alive, models>>
    /\ UNCHANGED <<camb, data_dict, cache, corr>>

\* what the caller of compute_power_spectrum sees
Returned(r) ==
    [status |-> r.status, kprime |-> r.kprime, pk |-> r.pk, poly |-> r.poly,
     calls |-> r.calls, returned |-> r.returned, dealt |-> r.dealt, form |-> r.form]

\* i.compute_power_spectrum(k, p, smooth, for_corr, data_name)
Compute(i, k, p, smooth, for_corr, data_name) ==
    /\ i \in alive
    /\ LET r == compute_power_spectrum(cache, i, k, p, smooth, for_corr, data_name)
       IN  /\ cache' = r.cache
           /\ last' = Op("compute", i, <<>>,
                         <<[k |-> k, p |-> p, smooth |-> smooth, for_corr |-> for_corr,
                            data_name |-> data_name]>>,
                         <<Returned(r)>>)
    /\ UNCHANGED <<models, alive, camb, data_dict, corr>>

\* the instance is given another cosmology: self.camb is a generator on another grid
SetCosmology(i) ==
    /\ i \in alive
    /\ camb[i].ver < MaxVersion
    /\ camb' = [camb EXCEPT ![i] = Camb(camb[i].ver + 1)]
    /\ last' = Op("set_cosmology", i, <<>>, <<>>, <<>>)
    /\ UNCHANGED <<models, alive, data_dict, cache, corr>>

\* the instance is given dataset d again, sampled on other wavenumbers
SetData(i, d) ==
    /\ i \in alive
    /\ data_dict[i][d].ver < MaxVersion
    /\ data_dict' = [data_dict EXCEPT ![i][d] = Dataset(data_dict[i][d].ver + 1)]
    /\ last' = Op("set_data", i, <<>>, <<>>, <<>>)
    /\ UNCHANGED <<models, alive, camb, cache, corr>>

\* CorrSeo2016(**a)
ConstructCorr(a) ==
    /\ corr' = <<[args |-> a, model |-> corr_init(a)]>>
    /\ last' = Op("construct_corr", None, <<>>, <<>>, <<>>)
    /\ UNCHANGED <<models, alive, camb, data_dict, cache>>
----------------------------------------------------------------------------
(* Inputs and specifications *)

\* a parameter map; bkey is "b", or "b_{1}" when the bias is given per dataset
Params(om, bkey, beta, alpha) ==
    [x \in {"om", bkey, "beta", "alpha", "epsilon", "sigma_s", "b_delta"} |->
        CASE x = "om" -> om
          [] x = bkey -> 1
          [] x = "beta" -> beta
          [] x = "alpha" -> alpha
          [] x = "epsilon" -> 0
          [] x = "sigma_s" -> 5 * One
          [] x = "b_delta" -> 0]

Args(isotropic, recon, n_poly, marg, poly_poles, n_data, data_share_poly) ==
    [isotropic |-> isotropic, recon |-> recon, n_poly |-> n_poly, marg |-> marg,
     poly_poles |-> poly_poles, n_data |-> n_data, data_share_poly |-> data_share_poly]

DataNameArgs == {None} \cup DataNames

Grids == {KsInput(v) : v \in 1..MaxVersion}

\* Spec: one instance of any configuration, evaluated in every mode
PoleLists == {<<0>>, <<0, 2>>}

AllArgs ==
    {Args(iso, recon, n_poly, marg, poles, nd[1], nd[2]) :
        iso \in BOOLEAN, recon \in {None, "iso", "sym", "ani"}, n_poly \in 0..MaxNPoly,
        marg \in {None, "partial", "full"}, poles \in PoleLists,
        nd \in {<<n, n > 1 /\ share>> : n \in 1..MaxNData, share \in BOOLEAN}}

AllParams ==
    {Params(om, bkey, 500000, alpha) :
        om \in {310000, 310004}, bkey \in {"b", "b_{1}"}, alpha \in {2 * One}}

Next ==
    \/ \E a \in AllArgs : Construct("A", a)
    \/ \E p \in AllParams, smooth \in BOOLEAN, for_corr \in BOOLEAN, data_name \in DataNameArgs :
            Compute("A", KsInput(1), p, smooth, for_corr, data_name)

Spec == Init /\ [][Next]_vars

\* SpecGrid: one instance evaluated while its cosmology and its data change
GridArgs == {Args(iso, recon, 5, None, <<0, 2>>, 1, FALSE) : iso \in BOOLEAN, recon \in {None, "iso"}}

GridParams == {Params(om, "b", 500000, One) : om \in {310000, 320000}}

NextGrid ==
    \/ \E a \in GridArgs : Construct("A", a)
    \/ \E k \in Grids, p \in GridParams, data_name \in DataNameArgs :
            Compute("A", k, p, FALSE, FALSE, data_name)
    \/ SetCosmology("A")
    \/ \E d \in DataNames : SetData("A", d)

SpecGrid == Init /\ [][NextGrid]_vars

\* SpecShare: two instances evaluated in turn
ShareArgs == {Args(iso, None, 5, None, <<0, 2>>, 1, FALSE) : iso \in BOOLEAN}

ShareParams == {Params(om, "b", beta, One) : om \in {310000, 320000}, beta \in {500000, 600000}}

NextShare ==
    \/ \E i \in Inst, a \in ShareArgs : Construct(i, a)
    \/ \E i \in Inst, p \in ShareParams : Compute(i, KsInput(1), p, FALSE, FALSE, None)

SpecShare == Init /\ [][NextShare]_vars

\* SpecCorr: CorrSeo2016 built from every combination of arguments
CorrArgs ==
    {[isotropic |-> iso, poly_poles |-> poles, marg |-> marg, fix_params |-> fix] :
        iso \in BOOLEAN, poles \in {<<0>>, <<2>>, <<0, 2>>, <<0, 2, 4>>},
        marg \in {None, "partial", "full"},
        fix \in {{<<"om", 0, 0>>, <<"beta", 0, 0>>}, {<<"om", 0, 0>>}, {},
                 {<<"om", 0, 0>>, A(0, 1)}, {<<"om", 0, 0>>, <<"beta", 0, 0>>, <<"sigma_s", 0, 0>>}}}

NextCorr == \E a \in CorrArgs : ConstructCorr(a)

SpecCorr == Init /\ [][NextCorr]_vars
----------------------------------------------------------------------------
(* Properties *)

IsCompute == last.op = "compute"

Call == last.call[1]

Result == last.r[1]

Model == models[last.self]

\* what compute_power_spectrum hands back: the grid, the multipoles, the polynomials
Output(r) == [status |-> r.status, kprime |-> r.kprime, pk |-> r.pk, poly |-> r.poly]

\* the entries of a cache sequence that belong to instance i
EntriesOf(c, i) == {c[n] : n \in {n2 \in 1..Len(c) : c[n2].key.self = i}}

\* C1: every value a memoized damping function returns equals the value a fresh
\* computation on the instance's current grids gives; an entry computed on an old
\* grid is never served after the grid changed.
C1_ServedDampingIsFresh ==
    IsCompute =>
        \A n \in 1..Len(Result.calls) :
            Result.returned[n] =
                Body(Result.calls[n], last.self, Round5(Call.p["b"] * Call.p["beta"]),
                     Round5(Call.p["om"]), Call.data_name)

\* C2: an evaluation on one instance never adds, evicts or replaces a cache entry
\* of another instance.
C2_OtherInstancesEntriesKept ==
    [][last'.op = "compute" =>
        \A fn \in Fns : \A i \in Inst \ {last'.self} :
            EntriesOf(cache'[fn], i) = EntriesOf(cache[fn], i)]_vars

\* C3: the output of compute_power_spectrum is the output the same call gives on
\* empty caches: hits, misses and evictions never influence the result.
C3_OutputIndependentOfCache ==
    IsCompute =>
        Output(Result) =
            Output(compute_power_spectrum(EmptyCache, last.self, Call.k, Call.p, Call.smooth,
                                          Call.for_corr, Call.data_name))

\* C4: the polynomial parameters the routine called by the evaluation reads are
\* the polynomial parameters declare_parameters declared.
C4_PolynomialFormDeclared ==
    (IsCompute /\ Result.form # 0) =>
        poly_params_used(Result.form, Model) = declare_parameters(Model)

\* C5: construction raises exactly when n_poly is outside {0, 3, 5} or the
\* reconstruction type is sym or ani, and then no instance exists to evaluate.
C5_ConstructionRaises ==
    /\ last.op = "construct" =>
          /\ (last.ctor[1].status = "NotImplementedError") <=>
                (last.ctor[1].args.n_poly \notin {0, 3, 5} \/
                 recon_type_of(last.ctor[1].args.recon) \in {"sym", "ani"})
          /\ (last.self \in alive) <=> (last.ctor[1].status = "ok")
    /\ \A i \in alive : models[i].n_poly \in {0, 3, 5} /\ models[i].recon_type \notin {"sym", "ani"}
    /\ IsCompute => last.self \in alive

C5_Witness ==
    /\ last.op = "construct"
    /\ last.ctor[1].status = "NotImplementedError"
    /\ last.ctor[1].args.n_poly = 5
    /\ last.ctor[1].args.recon = "ani"

\* C6: an isotropic instance returns the monopole only.
C6_IsotropicMonopoleOnly ==
    (IsCompute /\ Model.isotropic /\ Result.status = "ok") =>
        /\ Len(Result.pk) = 1
        /\ Result.pk[1].l = 0

C6_Witness ==
    /\ IsCompute
    /\ Model.isotropic
    /\ Model.recon
    /\ ~Call.smooth
    /\ Call.data_name # None
    /\ Result.status = "ok"

\* C7: an evaluation with smooth=True calls no memoized damping function and
\* leaves every damping cache, contents and recency order, as it was.
C7_SmoothLeavesCaches ==
    [][(last'.op = "compute" /\ last'.call[1].smooth) =>
        /\ last'.r[1].calls = <<>>
        /\ cache' = cache]_vars

C7_Witness ==
    /\ IsCompute
    /\ Call.smooth
    /\ Result.status = "ok"
    /\ ~Model.isotropic
    /\ Model.recon
    /\ cache["get_damping_aniso_dd_par"] # <<>>

\* C8: with for_corr=True the polynomial set is None, the returned grid is the
\* input k, no shape term is added to a multipole and deal_with_ndata is not run.
C8_ForCorrSkipsPolynomials ==
    (IsCompute /\ Call.for_corr) =>
        /\ ~Result.dealt
        /\ Result.form = 0
        /\ Result.status = "ok" =>
              /\ Result.poly.none
              /\ Result.kprime = [k |-> Call.k, alpha |-> One, warp |-> NoTerm]
              /\ \A n \in 1..Len(Result.pk) : Result.pk[n].shape = <<>>

C8_Witness ==
    /\ IsCompute
    /\ Call.for_corr
    /\ Result.status = "ok"
    /\ ~Model.isotropic
    /\ ~Model.marg
    /\ Call.p["alpha"] # One

\* C9: without for_corr, a marginalising instance (full or partial) returns the
\* built polynomial set without its first entry; otherwise it returns the set
\* complete and, when anisotropic, adds the shape to exactly the poly_poles.
C9_MarginalisationStripsBias ==
    (IsCompute /\ ~Call.for_corr /\ Result.status = "ok") =>
        LET built == add_poly(Result.form, Model, <<>>, <<>>, <<>>).poly
        IN  /\ ~Result.poly.none
            /\ Model.marg_type \in {"full", "partial"} =>
                  /\ Result.poly.entries = Tail(built)
                  /\ Len(Result.poly.entries) = Len(Model.poly_poles) * Result.form
            /\ Model.marg_type = None =>
                  /\ Result.poly.entries = built
                  /\ Result.poly.entries[1] = <<0, 0>>
                  /\ ~Model.isotropic =>
                        \A n \in 1..6 : (Result.pk[n].shape # <<>>) <=> ((n - 1) \in Range(Model.poly_poles))

C9_Witness ==
    /\ IsCompute
    /\ ~Call.for_corr
    /\ Result.status = "ok"
    /\ Model.marg_type = "partial"
    /\ ~Model.isotropic
    /\ Model.n_poly = 3

\* C10: a CorrSeo2016 built with a marginalisation mode has every a{pole}_1..3
\* of its poles declared, fixed and with default 0; an isotropic one has the
\* poles [0] whatever poly_poles was passed.
C10_CorrPolynomialsFixed ==
    \A n \in 1..Len(corr) :
        LET a == corr[n].args
            m == corr[n].model
            poly == {A(pole, order) : pole \in Range(m.poly_poles), order \in 1..3}
        IN  /\ a.isotropic => m.poly_poles = <<0>>
            /\ ~a.isotropic => m.poly_poles = a.poly_poles
            /\ {name \in DOMAIN m.defaults : name[1] = "a"} = poly
            /\ a.marg # None =>
                  /\ poly \subseteq m.fix_params
                  /\ \A name \in poly : m.defaults[name] = 0
                  /\ (DOMAIN m.defaults) \ m.fix_params \subseteq {name \in DOMAIN m.defaults : name[1] # "a"}

C10_Witness ==
    /\ Len(corr) = 1
    /\ corr[1].args.isotropic
    /\ corr[1].args.poly_poles = <<0, 2>>
    /\ corr[1].args.marg = "full"
    /\ A(0, 1) \notin corr[1].args.fix_params

\* C11: in a non-smooth evaluation every damping array served has a wavenumber
\* axis as long as the arrays it is multiplied with: the grid of pk_ratio
\* (camb.ks) in isotropic mode, the requested k in anisotropic mode.
C11_DampingAxisMatches ==
    (IsCompute /\ ~Call.smooth) =>
        \A n \in 1..Len(Result.returned) :
            IF Model.isotropic
            THEN Len(Result.returned[n].cols) = Len(camb[last.self].ks)
            ELSE Len(Result.returned[n].rows) = Len(Call.k)

====
